---------------------------- MODULE Spec2Model ----------------------------
(***************************************************************************)
(* A model of src/trainers.py (HALOs): the training loop of                *)
(* BasicTrainer.train, the sharded checkpoint protocol of                  *)
(* BasicTrainer.save, the sharding controller BasicTrainer.shard and the   *)
(* per-step metric collectives of UnpairedPreferenceTrainer and            *)
(* KTOTrainer with the three KTO-family losses.                            *)
(*                                                                         *)
(* Four specifications share the module, one per subsystem:                *)
(*   Spec        the training loop       (train)                           *)
(*   SpecSave    the checkpoint protocol (save / write_state_dict)         *)
(*   SpecShard   construction + sharding (__init__ / shard)                *)
(*   SpecMetrics one logical step of get_batch_metrics on every process    *)
(* The variables of the subsystems a specification does not run stay at    *)
(* their idle values.                                                      *)
(***************************************************************************)
EXTENDS Integers, Sequences, FiniteSets, TLC

VARIABLES
    \* ---- BasicTrainer.train ----
    config,                 \* the fields of self.config that train() reads
    train_iterator,         \* number of batches the iterator still yields
    tpc,                    \* position of train(): "idle" | "loop" | "done"
    example_counter,        \* self.example_counter
    batch_counter,          \* self.batch_counter
    gradients_accumulated,  \* local of train()
    last_log,               \* local of train(): <<>> is None, <<t>> a time
    clock,                  \* wall clock, what time.time() last returned
    optimizer_steps,        \* number of optimizer.step() calls so far
    scheduler_steps,        \* number of scheduler.step() calls so far
    step_ops,               \* optimizer-side calls made by the latest loop body
    evals,                  \* example counters at which the in-loop EVAL ran
    flush,                  \* what the latest loop body did at its log check
    flush_times,            \* the values last_log took, oldest first
    batch_metrics,          \* local of train(): the observations under each key
    flushed,                \* the dictionaries the log flushes took the means of
    trace,                  \* the phases of the run so far, each with its batch
    checkpoints,            \* the calls of save() made by train(), in order
    hygiene,                \* what the latest loop body did about device memory
    policy_training,        \* self.policy.training
    reference_training      \* self.reference_model.training

trainVars == <<config, train_iterator, tpc, example_counter, batch_counter,
               gradients_accumulated, last_log, clock, optimizer_steps,
               scheduler_steps, step_ops, evals, flush, flush_times,
               batch_metrics, flushed, trace, checkpoints, hygiene,
               policy_training, reference_training>>

VARIABLES
    \* ---- the process group ----
    fsdp,                   \* self.fsdp
    world_size,             \* self.world_size; the ranks are 0..world_size-1
    arrived,                \* per rank: number of dist.barrier() calls entered
    \* ---- BasicTrainer.save ----
    save_model_only,        \* argument of save()
    spc,                    \* per rank: position in save()
    disk,                   \* the torch.save / save_pretrained calls, in order
    save_metrics            \* argument metrics of save(): None or <<a mapping>>

VARIABLES
    \* ---- BasicTrainer.__init__ and shard ----
    model_config,           \* what shard() reads of the config and the runtime
    hpc,                    \* per rank: position in __init__ / shard()
    wrapped,                \* per rank: the modules wrapped by FSDP
    checkpointed,           \* per rank: the modules given activation checkpointing
    printed,                \* per rank: what shard() passed to rank0_print about
                            \* activation checkpointing
    shard_calls             \* per rank: number of calls of shard() so far

VARIABLES
    \* ---- get_batch_metrics, one logical step on every rank ----
    trainer,                \* the trainer class and config.loss
    microbatch,             \* per rank: the local microbatch and the log-probabilities
                            \* the two models give it
    mpc,                    \* per rank: position in get_batch_metrics
    calls,                  \* per rank: the collectives it has issued, in order
    sent,                   \* per collective and rank: <<>> or <<the contribution>>
    local,                  \* per rank: the local variables of get_batch_metrics
    metrics                 \* per rank: the returned (loss, metrics), once computed

VARIABLES
    \* ---- the batches of one step and their per-rank slices ----
    batch_len,              \* leading dimension of the train batch and of the eval batch
    remainder,              \* what the slicing does with a remainder
    local_range             \* per rank: the index range it took of each batch, or None

groupVars == <<fsdp, world_size, arrived>>
sliceVars == <<batch_len, remainder, local_range>>
metricVars == <<trainer, microbatch, mpc, calls, sent, local, metrics>>
saveVars == <<save_model_only, spc, disk, save_metrics>>
shardVars == <<model_config, hpc, wrapped, checkpointed, printed, shard_calls>>

vars == <<trainVars, groupVars, saveVars, shardVars, metricVars, sliceVars>>

\* what the actions of one subsystem leave alone
notTrain == <<groupVars, saveVars, shardVars, metricVars, sliceVars>>
notSave == <<trainVars, shardVars, metricVars, sliceVars>>
notShard == <<trainVars, saveVars, metricVars, sliceVars>>
notMetrics == <<trainVars, saveVars, shardVars, fsdp, world_size, arrived, sliceVars>>
notSlice == <<trainVars, saveVars, shardVars, metricVars, fsdp, world_size, arrived>>

(***************************************************************************)
(* Bounds of the model.                                                    *)
(***************************************************************************)
MaxBatches == 5     \* longest train iterator
MaxCfg == 3         \* largest batch_size, eval_every, gradient_accumulation_steps
MaxTime == 5        \* the clock stops the run here
MaxDt == 2          \* largest time between two reads of the clock
MaxWorld == 3       \* largest process group
MaxMicro == 2       \* largest microbatch of one rank
MaxBatchLen == 6    \* largest leading dimension of a global batch

(***************************************************************************)
(* BasicTrainer.train                                                       *)
(***************************************************************************)
None == <<>>

Configs ==
    [batch_size : 1..MaxCfg,
     eval_every : 1..MaxCfg,
     gradient_accumulation_steps : 1..MaxCfg,
     do_first_eval : BOOLEAN,
     minimum_log_interval_secs : 0..1,
     debug : BOOLEAN,
     intermediate_checkpoints : BOOLEAN]

\* line 349, 440: defaultdict(list), shown with the keys train() fills: the
\* metrics of get_batch_metrics (one observation for each microbatch, named
\* by its number), grad_norm (named by the optimizer step) and
\* examples_per_second
NoMetrics == [metrics |-> <<>>, grad_norm |-> <<>>, examples_per_second |-> <<>>]

NoFlush == [checked |-> FALSE, flushed |-> FALSE, at |-> 0, since |-> None, logged |-> None]

NoHygiene == [flushed |-> FALSE, free |-> 0, collected |-> FALSE]

TrainIdle ==
    /\ config = [batch_size |-> 1, eval_every |-> 1,
                 gradient_accumulation_steps |-> 1, do_first_eval |-> FALSE,
                 minimum_log_interval_secs |-> 0, debug |-> FALSE,
                 intermediate_checkpoints |-> FALSE]
    /\ train_iterator = 0
    /\ tpc = "idle"
    /\ example_counter = 0
    /\ batch_counter = 0
    /\ gradients_accumulated = 0
    /\ last_log = None
    /\ clock = 0
    /\ optimizer_steps = 0
    /\ scheduler_steps = 0
    /\ step_ops = <<>>
    /\ evals = <<>>
    /\ flush = NoFlush
    /\ flush_times = <<>>
    /\ batch_metrics = NoMetrics
    /\ flushed = <<>>
    /\ trace = <<>>
    /\ checkpoints = <<>>
    /\ hygiene = NoHygiene
    /\ policy_training = TRUE
    /\ reference_training = TRUE

\* the trainer while save() runs: train() is not moving, and its example
\* counter is whatever the run has reached
TrainPaused ==
    /\ config = [batch_size |-> 1, eval_every |-> 1,
                 gradient_accumulation_steps |-> 1, do_first_eval |-> FALSE,
                 minimum_log_interval_secs |-> 0, debug |-> FALSE,
                 intermediate_checkpoints |-> FALSE]
    /\ train_iterator = 0
    /\ tpc = "idle"
    /\ example_counter \in {0, MaxCfg}
    /\ batch_counter = 0
    /\ gradients_accumulated = 0
    /\ last_log = None
    /\ clock = 0
    /\ optimizer_steps = 0
    /\ scheduler_steps = 0
    /\ step_ops = <<>>
    /\ evals = <<>>
    /\ flush = NoFlush
    /\ flush_times = <<>>
    /\ batch_metrics = NoMetrics
    /\ flushed = <<>>
    /\ trace = <<>>
    /\ checkpoints = <<>>
    /\ hygiene = NoHygiene
    /\ policy_training = TRUE
    /\ reference_training = TRUE

\* __init__ (lines 98-99) and the head of train() (lines 347-349)
TrainInit ==
    /\ config \in Configs
    /\ train_iterator \in 0..MaxBatches
    /\ tpc = "loop"
    /\ example_counter = 0
    /\ batch_counter = 0
    /\ gradients_accumulated = 0
    /\ last_log = None
    /\ clock = 0
    /\ optimizer_steps = 0
    /\ scheduler_steps = 0
    /\ step_ops = <<>>
    /\ evals = <<>>
    /\ flush = NoFlush
    /\ flush_times = <<>>
    /\ batch_metrics = NoMetrics
    /\ flushed = <<>>
    /\ trace = <<>>
    /\ checkpoints = <<>>
    /\ hygiene = NoHygiene
    /\ policy_training \in BOOLEAN
    /\ reference_training = FALSE

\* line 353: the EVALUATION guard at the top of the loop body
EvalDue(counter) ==
    /\ counter % config.eval_every = 0
    /\ (counter > 0 \/ config.do_first_eval)

\* line 403 with the comparison off by one
AccumulationDue_late(accumulated) ==
    accumulated > config.gradient_accumulation_steps

\* line 403: the accumulation cycle is complete
AccumulationDue(accumulated) ==
    accumulated = config.gradient_accumulation_steps

\* lines 404-410: clip, step the optimizer, reset its gradients, step the schedule
OptimizerOps == <<"clip_gradient", "optimizer.step", "optimizer.zero_grad", "scheduler.step">>

\* line 422 with >= for >
LogDue_inclusive(accumulated, t) ==
    /\ accumulated = 0
    /\ (last_log = None \/ t - last_log[1] >= config.minimum_log_interval_secs)

\* line 422: the condition of the log flush, t the clock read there
LogDue(accumulated, t) ==
    /\ accumulated = 0
    /\ (last_log = None \/ t - last_log[1] > config.minimum_log_interval_secs)

\* lines 378-384 without the test of config.debug
CheckpointDue_debug(counter) ==
    counter > 0 /\ config.intermediate_checkpoints

\* lines 378-384: the evaluation at this counter writes a checkpoint
CheckpointDue(counter) ==
    counter > 0 /\ ~config.debug /\ config.intermediate_checkpoints

\* lines 365-369: the means of the evaluation made at this counter
mean_eval_metrics(counter) == <<(<< <<"eval after", counter>> >>)>>

\* lines 382-384 and 477: self.save(output_dir, mean_eval_metrics), with the
\* default of save_model_only
SaveCall(counter) ==
    [output_dir |-> <<"step", counter>>,
     metrics |-> mean_eval_metrics(counter),
     save_model_only |-> TRUE]

\* line 390 left out
PolicyTrain_off(training) == training

\* line 390: self.policy.train()
PolicyTrain(training) == TRUE

\* line 355: self.policy.eval()
PolicyEval(training) == FALSE

\* lines 353-387: the phases of the evaluation block on batch number b; the
\* forward passes of the evaluation run after policy.eval() (line 355) and
\* inside torch.no_grad() (line 361)
EvalPhases(counter, b) ==
    IF ~EvalDue(counter) THEN <<>>
    ELSE <<[phase |-> "EVAL", batch |-> b,
            training |-> PolicyEval(policy_training), no_grad |-> TRUE]>>
            \o (IF CheckpointDue(counter)
                   THEN <<[phase |-> "CHECKPOINT", batch |-> b,
                           training |-> PolicyEval(policy_training), no_grad |-> FALSE]>>
                   ELSE <<>>)

\* line 416: self.batch_counter counting optimizer steps
BatchCounterAfter_updates(counter, due) == IF due THEN counter + 1 ELSE counter

\* line 416: self.batch_counter += 1
BatchCounterAfter(counter, due) == counter + 1

\* line 410 outside the if of line 403
AccumulatedAfter_reset(accumulated, due) == 0

\* lines 401-410: the accumulation counter after the optimizer block
AccumulatedAfter(accumulated, due) == IF due THEN 0 ELSE accumulated

\* the free device memory, in bytes, the loop body may find at line 443-444
FreeMemory == {50 * 1024, 50 * 1024 * 1024}

\* line 446: (r - a) / 1024 < 100, r - a in bytes
GcDue(free) == free \div 1024 < 100

\* lines 398-399, 405, 414: the observations of batch number b join the lists
Observe(bm, b, due) ==
    [metrics |-> Append(bm.metrics, b),
     grad_norm |-> IF due THEN Append(bm.grad_norm, optimizer_steps + 1) ELSE bm.grad_norm,
     examples_per_second |-> Append(bm.examples_per_second, b)]

\* lines 437, 440 with the dictionary kept
AfterFlush_keep(bm) == bm

\* lines 437, 440: delete_dict(batch_metrics); batch_metrics = defaultdict(list)
AfterFlush(bm) == NoMetrics

\* lines 351-450: one pass of the loop body on the next batch
TrainStep ==
    /\ tpc = "loop"
    /\ train_iterator > 0
    /\ \E d1 \in 0..MaxDt, d2 \in 0..MaxDt :
         LET acc == gradients_accumulated + 1
             due == AccumulationDue(acc)
             accAfter == AccumulatedAfter(acc, due)
             t422 == clock + d1
             t435 == t422 + d2
             log == LogDue(accAfter, t422)
             b == batch_counter + 1
             observed == Observe(batch_metrics, b, due)
             evaluated == EvalDue(example_counter)
             mode == PolicyTrain(IF evaluated THEN PolicyEval(policy_training)
                                              ELSE policy_training)
         IN  /\ t435 <= MaxTime
             /\ train_iterator' = train_iterator - 1
             /\ evals' = IF EvalDue(example_counter)
                            THEN Append(evals, example_counter) ELSE evals
             /\ gradients_accumulated' = accAfter
             /\ step_ops' = IF due THEN OptimizerOps ELSE <<>>
             /\ optimizer_steps' = IF due THEN optimizer_steps + 1 ELSE optimizer_steps
             /\ scheduler_steps' = IF due THEN scheduler_steps + 1 ELSE scheduler_steps
             /\ batch_counter' = BatchCounterAfter(batch_counter, due)
             /\ example_counter' = example_counter + config.batch_size
             /\ flush' = [checked |-> TRUE, flushed |-> log, at |-> t422, since |-> last_log,
                          logged |-> IF log THEN <<[examples |-> example_counter',
                                                    updates |-> batch_counter']>>
                                            ELSE None]
             /\ checkpoints' = IF evaluated /\ CheckpointDue(example_counter)
                                  THEN Append(checkpoints, SaveCall(example_counter))
                                  ELSE checkpoints
             /\ policy_training' = mode
             /\ \E free \in (IF log THEN FreeMemory ELSE {0}) :
                    hygiene' = [flushed |-> log, free |-> free,
                                collected |-> log /\ GcDue(free)]
             /\ last_log' = IF log THEN <<t435>> ELSE last_log
             /\ flush_times' = IF log THEN Append(flush_times, t435) ELSE flush_times
             /\ clock' = IF log THEN t435 ELSE t422
             /\ batch_metrics' = IF log THEN AfterFlush(observed) ELSE observed
             /\ flushed' = IF log THEN Append(flushed, observed) ELSE flushed
             /\ trace' = trace \o EvalPhases(example_counter, b)
                               \o <<[phase |-> "TRAIN_STEP", batch |-> b,
                                      training |-> mode, no_grad |-> FALSE]>>
    /\ UNCHANGED <<config, tpc, reference_training>>
    /\ UNCHANGED notTrain

\* line 351 with a closing evaluation when the iterator is exhausted
TrainExhausted_eval ==
    /\ tpc = "loop"
    /\ train_iterator = 0
    /\ tpc' = "done"
    /\ trace' = Append(trace, [phase |-> "EVAL", batch |-> batch_counter,
                                training |-> FALSE, no_grad |-> TRUE])
    /\ UNCHANGED <<config, train_iterator, example_counter, batch_counter,
                   gradients_accumulated, last_log, clock, optimizer_steps,
                   scheduler_steps, step_ops, evals, flush, flush_times,
                   batch_metrics, flushed, checkpoints, hygiene,
                   policy_training, reference_training>>
    /\ UNCHANGED notTrain

\* line 351: the iterator is exhausted and train() returns
TrainExhausted ==
    /\ tpc = "loop"
    /\ train_iterator = 0
    /\ tpc' = "done"
    /\ UNCHANGED <<config, train_iterator, example_counter, batch_counter,
                   gradients_accumulated, last_log, clock, optimizer_steps,
                   scheduler_steps, step_ops, evals, flush, flush_times,
                   batch_metrics, flushed, trace, checkpoints, hygiene,
                   policy_training, reference_training>>
    /\ UNCHANGED notTrain

(***************************************************************************)
(* The process group and dist.barrier()                                    *)
(***************************************************************************)
Ranks == 0..(world_size - 1)

GroupIdle ==
    /\ fsdp = FALSE
    /\ world_size = 1
    /\ arrived = [p \in {0} |-> 0]

\* a barrier that holds nobody back
BarrierOpen_nowait(p) == arrived[p] >= 0

\* dist.barrier() lets a rank go once every rank of the group has entered the
\* same barrier call
BarrierOpen(p) == \A q \in Ranks : arrived[q] >= arrived[p]

(***************************************************************************)
(* BasicTrainer.save and write_state_dict                                  *)
(***************************************************************************)
SaveIdle ==
    /\ save_model_only = TRUE
    /\ spc = [p \in {0} |-> "idle"]
    /\ disk = <<>>
    /\ save_metrics = None

\* a mapping is a sequence of <<key, value>> pairs; {} is the empty one
EmptyDict == <<>>

\* lines 471-475 storing the metrics as they were passed
write_state_dict_asis(p, step, metrics_, filename) == [rank |-> p, file |-> filename, step_idx |-> step, metrics |-> metrics_]

\* lines 456-475: one artifact written by rank p, with what torch.save stores
\* under step_idx and metrics
write_state_dict(p, step, metrics_, filename) == [rank |-> p, file |-> filename, step_idx |-> step, metrics |-> IF metrics_ # None THEN metrics_ ELSE <<EmptyDict>>]

\* the metrics a caller passes to save(): none, an empty mapping, or the
\* mean evaluation metrics
SaveMetrics == {None, <<EmptyDict>>, <<(<< <<"loss/eval", 1>> >>)>>}

\* the writes of the sharded branch without their rank guard
IsWriter_any(p) == p >= 0

\* the rank that writes in the sharded branch (lines 487, 499, 504)
IsWriter(p) == p = 0

SaveInit ==
    /\ fsdp \in BOOLEAN
    /\ world_size \in (IF fsdp THEN 1..MaxWorld ELSE {1})
    /\ arrived = [p \in Ranks |-> 0]
    /\ save_model_only \in BOOLEAN
    /\ spc = [p \in Ranks |-> "save"]
    /\ disk = <<>>
    /\ save_metrics \in SaveMetrics

\* lines 483-491: gather the full policy state, rank 0 writes policy.pt and
\* the tokenizer
SavePolicy(p) ==
    /\ spc[p] = "save"
    /\ fsdp
    /\ disk' = IF IsWriter(p)
                  THEN disk \o <<write_state_dict(p, example_counter, save_metrics, "policy.pt"),
                                 [rank |-> p, file |-> "tokenizer"]>>
                  ELSE disk
    /\ spc' = [spc EXCEPT ![p] = "barrier_492"]
    /\ UNCHANGED <<fsdp, world_size, arrived, save_model_only, save_metrics>>
    /\ UNCHANGED notSave

\* lines 492, 502, 508: the rank enters dist.barrier()
SaveBarrierEnter(p) ==
    /\ spc[p] \in {"barrier_492", "barrier_502", "barrier_508"}
    /\ arrived' = [arrived EXCEPT ![p] = @ + 1]
    /\ spc' = [spc EXCEPT ![p] = CASE spc[p] = "barrier_492" -> "in_492"
                                    [] spc[p] = "barrier_502" -> "in_502"
                                    [] OTHER -> "in_508"]
    /\ UNCHANGED <<fsdp, world_size, save_model_only, disk, save_metrics>>
    /\ UNCHANGED notSave

\* the barrier releases the rank; line 494 picks what follows the first one
SaveBarrierLeave(p) ==
    /\ spc[p] \in {"in_492", "in_502", "in_508"}
    /\ BarrierOpen(p)
    /\ spc' = [spc EXCEPT ![p] =
                  CASE spc[p] = "in_492" ->
                         (IF save_model_only THEN "returned" ELSE "optimizer")
                    [] spc[p] = "in_502" -> "scheduler"
                    [] OTHER -> "returned"]
    /\ UNCHANGED <<fsdp, world_size, arrived, save_model_only, disk, save_metrics>>
    /\ UNCHANGED notSave

\* lines 495-501: gather the optimizer state, rank 0 writes optimizer.pt
SaveOptimizer(p) ==
    /\ spc[p] = "optimizer"
    /\ disk' = IF IsWriter(p)
                  THEN Append(disk, write_state_dict(p, example_counter, save_metrics, "optimizer.pt"))
                  ELSE disk
    /\ spc' = [spc EXCEPT ![p] = "barrier_502"]
    /\ UNCHANGED <<fsdp, world_size, arrived, save_model_only, save_metrics>>
    /\ UNCHANGED notSave

\* lines 504-507: rank 0 binds scheduler_state_dict and writes scheduler.pt;
\* line 507 deletes the name on every rank, and the name is unbound on the
\* ranks that skipped line 505: UnboundLocalError
SaveScheduler(p) ==
    /\ spc[p] = "scheduler"
    /\ disk' = IF IsWriter(p)
                  THEN Append(disk, write_state_dict(p, example_counter, save_metrics, "scheduler.pt"))
                  ELSE disk
    /\ spc' = [spc EXCEPT ![p] = IF p = 0 THEN "barrier_508" ELSE "raised"]
    /\ UNCHANGED <<fsdp, world_size, arrived, save_model_only, save_metrics>>
    /\ UNCHANGED notSave

\* lines 510-522: the unsharded branch, the calling process writes everything
SaveUnsharded(p) ==
    /\ spc[p] = "save"
    /\ ~fsdp
    /\ disk' = disk
                \o <<[rank |-> p, file |-> "tokenizer"],
                     write_state_dict(p, example_counter, save_metrics, "policy.pt")>>
                \o (IF save_model_only THEN <<>>
                    ELSE <<write_state_dict(p, example_counter, save_metrics, "optimizer.pt"),
                           write_state_dict(p, example_counter, save_metrics, "scheduler.pt")>>)
    /\ spc' = [spc EXCEPT ![p] = "returned"]
    /\ UNCHANGED <<fsdp, world_size, arrived, save_model_only, save_metrics>>
    /\ UNCHANGED notSave

\* after save() returns the caller goes on training (line 389 onwards)
SaveResume(p) ==
    /\ spc[p] = "returned"
    /\ spc' = [spc EXCEPT ![p] = "training"]
    /\ UNCHANGED <<fsdp, world_size, arrived, save_model_only, disk, save_metrics>>
    /\ UNCHANGED notSave

(***************************************************************************)
(* BasicTrainer.__init__ and BasicTrainer.shard                            *)
(***************************************************************************)
ShardIdle ==
    /\ model_config = [block_name |-> TRUE, ppo |-> FALSE, reference_model |-> FALSE,
                       activation_checkpointing |-> FALSE, checkpoint_support |-> TRUE,
                       optimizer |-> TRUE]
    /\ hpc = [p \in {0} |-> "idle"]
    /\ wrapped = [p \in {0} |-> {}]
    /\ checkpointed = [p \in {0} |-> {}]
    /\ printed = [p \in {0} |-> <<>>]
    /\ shard_calls = [p \in {0} |-> 0]

\* block_name: config.model.block_name is not None; ppo: config.loss.name is
\* 'ppo'; reference_model: one was passed; checkpoint_support: the import of
\* lines 163-167 succeeds; optimizer: config.optimizer names a class of
\* torch.optim
ModelConfigs ==
    [block_name : BOOLEAN, ppo : BOOLEAN, reference_model : BOOLEAN,
     activation_checkpointing : BOOLEAN, checkpoint_support : BOOLEAN,
     optimizer : BOOLEAN]

ShardInit ==
    /\ fsdp \in BOOLEAN
    /\ world_size \in (IF fsdp THEN 1..MaxWorld ELSE {1})
    /\ arrived = [p \in Ranks |-> 0]
    /\ model_config \in ModelConfigs
    /\ hpc = [p \in Ranks |-> "new"]
    /\ wrapped = [p \in Ranks |-> {}]
    /\ checkpointed = [p \in Ranks |-> {}]
    /\ printed = [p \in Ranks |-> <<>>]
    /\ shard_calls = [p \in Ranks |-> 0]

\* lines 135-155: the modules shard() wraps
ShardedModules ==
    (IF model_config.ppo THEN {"policy.pretrained_model", "policy.v_head"}
                         ELSE {"policy"})
    \cup (IF model_config.reference_model THEN {"reference_model"} ELSE {})

\* lines 174-180: the modules that get the checkpointing wrapper
CheckpointedModules ==
    (IF model_config.ppo THEN {"policy.pretrained_model"} ELSE {"policy"})
    \cup (IF model_config.reference_model THEN {"reference_model"} ELSE {})

\* lines 106-107 without the test of self.fsdp
Construct_always(p) ==
    /\ hpc[p] = "new"
    /\ hpc' = [hpc EXCEPT ![p] = "shard"]
    /\ shard_calls' = [shard_calls EXCEPT ![p] = @ + 1]
    /\ UNCHANGED <<groupVars, model_config, wrapped, checkpointed, printed>>
    /\ UNCHANGED notShard

\* lines 82-107: the constructor up to the decision to shard; shard() is
\* called nowhere else
Construct(p) ==
    /\ hpc[p] = "new"
    /\ hpc' = [hpc EXCEPT ![p] = IF fsdp THEN "shard" ELSE "constructed"]
    /\ shard_calls' = [shard_calls EXCEPT ![p] = IF fsdp THEN @ + 1 ELSE @]
    /\ UNCHANGED <<groupVars, model_config, wrapped, checkpointed, printed>>
    /\ UNCHANGED notShard

\* line 115 without the assertion
ShardAssert_off(p) ==
    /\ hpc[p] = "shard"
    /\ hpc' = [hpc EXCEPT ![p] = "wrap"]
    /\ UNCHANGED <<groupVars, model_config, wrapped, checkpointed, printed, shard_calls>>
    /\ UNCHANGED notShard

\* line 115: the assertion on config.model.block_name
ShardAssert(p) ==
    /\ hpc[p] = "shard"
    /\ hpc' = [hpc EXCEPT ![p] = IF model_config.block_name THEN "wrap" ELSE "raised"]
    /\ UNCHANGED <<groupVars, model_config, wrapped, checkpointed, printed, shard_calls>>
    /\ UNCHANGED notShard

\* lines 116-155: wrap the policy (or its two parts) and the reference model
ShardWrap(p) ==
    /\ hpc[p] = "wrap"
    /\ wrapped' = [wrapped EXCEPT ![p] = ShardedModules]
    /\ hpc' = [hpc EXCEPT ![p] = "checkpointing"]
    /\ UNCHANGED <<groupVars, model_config, checkpointed, printed, shard_calls>>
    /\ UNCHANGED notShard

\* lines 158, 169, 172, 182: what shard() hands to rank0_print
CheckpointingMessages ==
    IF ~model_config.activation_checkpointing THEN <<>>
    ELSE IF model_config.checkpoint_support
        THEN <<"Attempting to enable activation checkpointing...",
               "Applying activation checkpointing wrapper to policy...",
               "FSDP activation checkpointing enabled!">>
        ELSE <<"Attempting to enable activation checkpointing...",
               "FSDP activation checkpointing not available:">>

\* lines 157-182 with the failed import leaving shard() at once
ShardCheckpointing_return(p) ==
    /\ hpc[p] = "checkpointing"
    /\ checkpointed' = [checkpointed EXCEPT ![p] =
          IF model_config.activation_checkpointing /\ model_config.checkpoint_support
              THEN CheckpointedModules ELSE {}]
    /\ printed' = [printed EXCEPT ![p] = CheckpointingMessages]
    /\ hpc' = [hpc EXCEPT ![p] =
          IF model_config.activation_checkpointing /\ ~model_config.checkpoint_support
              THEN "constructed" ELSE "barrier_185"]
    /\ UNCHANGED <<groupVars, model_config, wrapped, shard_calls>>
    /\ UNCHANGED notShard

\* lines 157-182 with the failed import propagating out of shard()
ShardCheckpointing_raise(p) ==
    /\ hpc[p] = "checkpointing"
    /\ checkpointed' = [checkpointed EXCEPT ![p] =
          IF model_config.activation_checkpointing /\ model_config.checkpoint_support
              THEN CheckpointedModules ELSE {}]
    /\ printed' = [printed EXCEPT ![p] =
          IF model_config.activation_checkpointing
              THEN <<"Attempting to enable activation checkpointing...">> ELSE <<>>]
    /\ hpc' = [hpc EXCEPT ![p] =
          IF model_config.activation_checkpointing /\ ~model_config.checkpoint_support
              THEN "raised" ELSE "barrier_185"]
    /\ UNCHANGED <<groupVars, model_config, wrapped, shard_calls>>
    /\ UNCHANGED notShard

\* lines 157-182: activation checkpointing; a failed import is logged only
ShardCheckpointing(p) ==
    /\ hpc[p] = "checkpointing"
    /\ checkpointed' = [checkpointed EXCEPT ![p] =
          IF model_config.activation_checkpointing /\ model_config.checkpoint_support
              THEN CheckpointedModules ELSE {}]
    /\ printed' = [printed EXCEPT ![p] = CheckpointingMessages]
    /\ hpc' = [hpc EXCEPT ![p] = "barrier_185"]
    /\ UNCHANGED <<groupVars, model_config, wrapped, shard_calls>>
    /\ UNCHANGED notShard

\* lines 184-185: the rank enters the post-sharding barrier
ShardBarrierEnter(p) ==
    /\ hpc[p] = "barrier_185"
    /\ arrived' = [arrived EXCEPT ![p] = @ + 1]
    /\ hpc' = [hpc EXCEPT ![p] = "in_185"]
    /\ UNCHANGED <<fsdp, world_size, model_config, wrapped, checkpointed, printed, shard_calls>>
    /\ UNCHANGED notShard

\* the barrier releases the rank, shard() and __init__ return (line 109)
ShardBarrierLeave(p) ==
    /\ hpc[p] = "in_185"
    /\ BarrierOpen(p)
    /\ hpc' = [hpc EXCEPT ![p] = "constructed"]
    /\ UNCHANGED <<groupVars, model_config, wrapped, checkpointed, printed, shard_calls>>
    /\ UNCHANGED notShard

\* lines 340-342: train() builds the optimizer named by config.optimizer and
\* the schedule; getattr raises AttributeError on an unknown name
TrainBegin(p) ==
    /\ hpc[p] = "constructed"
    /\ hpc' = [hpc EXCEPT ![p] = IF model_config.optimizer THEN "train" ELSE "raised_341"]
    /\ UNCHANGED <<groupVars, model_config, wrapped, checkpointed, printed, shard_calls>>
    /\ UNCHANGED notShard

\* the first forward pass of the constructed trainer: train() (line 395),
\* eval() (line 259) or sample() (line 299)
Forward(p) ==
    /\ hpc[p] \in {"constructed", "train"}
    /\ hpc' = [hpc EXCEPT ![p] = "forward"]
    /\ UNCHANGED <<groupVars, model_config, wrapped, checkpointed, printed, shard_calls>>
    /\ UNCHANGED notShard

(***************************************************************************)
(* Tensors.  A float is a record: NaN, or a fixed-point number with Unit   *)
(* steps to 1. A one-dimensional tensor is a sequence of floats.           *)
(***************************************************************************)
Unit == 1000

F(x) == [nan |-> FALSE, v |-> x]
NaN == [nan |-> TRUE, v |-> 0]

Add(a, b) == IF a.nan \/ b.nan THEN NaN ELSE F(a.v + b.v)
Sub(a, b) == IF a.nan \/ b.nan THEN NaN ELSE F(a.v - b.v)
\* a Python number k times a float
Times(k, a) == IF a.nan THEN NaN ELSE F(k * a.v)
\* a float divided by a Python integer n > 0
Over(a, n) == IF a.nan THEN NaN ELSE F(a.v \div n)

RECURSIVE Sum(_)
Sum(t) == IF t = <<>> THEN F(0) ELSE Add(t[1], Sum(Tail(t)))

\* Tensor.mean(): NaN on an empty tensor
Mean(t) == IF Len(t) = 0 THEN NaN ELSE Over(Sum(t), Len(t))

\* Tensor.clamp(min=0) leaving its argument as it is
ClampMin0_off(a) == a

\* Tensor.clamp(min=0): NaN stays NaN
ClampMin0(a) == IF a.nan THEN NaN ELSE IF a.v < 0 THEN F(0) ELSE a

\* Tensor.nan_to_num(0) leaving its argument as it is
NanToNum0_off(a) == a

\* Tensor.nan_to_num(0)
NanToNum0(a) == IF a.nan THEN F(0) ELSE a

\* 1/(1+exp(-x)) at x = 0, 1, ..., 7, in thousandths
SigmoidTable == <<500, 731, 881, 953, 982, 993, 998, 999>>

\* F.sigmoid on x >= 0 (x in Unit steps): the table, linear in between
SigmoidPos(x) ==
    LET q == x \div Unit
        r == x % Unit
        lo == IF q < Len(SigmoidTable) THEN SigmoidTable[q + 1] ELSE Unit
        hi == IF q + 1 < Len(SigmoidTable) THEN SigmoidTable[q + 2] ELSE Unit
    IN  lo + ((hi - lo) * r) \div Unit

\* F.sigmoid
Sigmoid(a) ==
    IF a.nan THEN NaN
    ELSE IF a.v >= 0 THEN F(SigmoidPos(a.v)) ELSE F(Unit - SigmoidPos(0 - a.v))

\* elementwise difference of two tensors of one length
TSub(s, t) == [i \in 1..Len(s) |-> Sub(s[i], t[i])]

\* 1 - F.sigmoid(beta * (x_i - k)) for each element, k a scalar
LossAbove(beta, t, k) ==
    [i \in 1..Len(t) |-> Sub(F(Unit), Sigmoid(Times(beta, Sub(t[i], k))))]

\* 1 - F.sigmoid(beta * (k - x_i)) for each element, k a scalar
LossBelow(beta, t, k) ==
    [i \in 1..Len(t) |-> Sub(F(Unit), Sigmoid(Times(beta, Sub(k, t[i]))))]

TTimes(k, t) == [i \in 1..Len(t) |-> Times(k, t[i])]

HasNaN(t) == \E i \in 1..Len(t) : t[i].nan

\* the dtype and device of torch.Tensor([])
EmptyTensor == [dtype |-> "float32", device |-> "cpu"]

\* Tensor.to(dtype), Tensor.to(device)
ToDtype(t, dtype) == [t EXCEPT !.dtype = dtype]
ToDevice(t, device) == [t EXCEPT !.device = device]

(***************************************************************************)
(* The loss strategies                                                     *)
(***************************************************************************)
\* lines 623-634
SimpleKTO_loss(cfg, policy_chosen_logps, policy_rejected_logps, reference_chosen_logps, reference_rejected_logps) ==
    LET chosen_KL == ClampMin0(Mean(TSub(policy_chosen_logps, reference_chosen_logps)))
        rejected_KL == ClampMin0(Mean(TSub(policy_rejected_logps, reference_rejected_logps)))
        chosen_logratios == TSub(policy_chosen_logps, reference_chosen_logps)
        rejected_logratios == TSub(policy_rejected_logps, reference_rejected_logps)
    IN  [losses |-> LossAbove(cfg.beta, chosen_logratios, rejected_KL)
                    \o LossBelow(cfg.beta, rejected_logratios, chosen_KL),
         chosen_rewards |-> TTimes(cfg.beta, chosen_logratios),
         rejected_rewards |-> TTimes(cfg.beta, rejected_logratios)]

\* lines 666-686 with the two weights exchanged
KTO_loss_swapped(cfg, policy_chosen_logps, policy_rejected_logps, reference_chosen_logps, reference_rejected_logps, KL) ==
    LET chosen_logratios == TSub(policy_chosen_logps, reference_chosen_logps)
        rejected_logratios == TSub(policy_rejected_logps, reference_rejected_logps)
        logps_like == [dtype |-> cfg.policy_dtype, device |-> cfg.device]
        empty_like == ToDevice(ToDtype(EmptyTensor, cfg.policy_dtype), cfg.device)
        chosen_losses == IF Len(policy_chosen_logps) # 0
                            THEN LossAbove(cfg.beta, chosen_logratios, KL) ELSE <<>>
        chosen_rewards == IF Len(policy_chosen_logps) # 0
                            THEN TTimes(cfg.beta, chosen_logratios) ELSE <<>>
        rejected_losses == IF Len(policy_rejected_logps) # 0
                            THEN LossBelow(cfg.beta, rejected_logratios, KL) ELSE <<>>
        rejected_rewards == IF Len(policy_rejected_logps) # 0
                            THEN TTimes(cfg.beta, rejected_logratios) ELSE <<>>
    IN  [losses |-> TTimes(cfg.undesirable_weight, chosen_losses)
                    \o TTimes(cfg.desirable_weight, rejected_losses),
         chosen_rewards |-> chosen_rewards,
         rejected_rewards |-> rejected_rewards,
         chosen_like |-> IF Len(policy_chosen_logps) # 0 THEN logps_like ELSE empty_like,
         rejected_like |-> IF Len(policy_rejected_logps) # 0 THEN logps_like ELSE empty_like]

\* lines 666-686, KL the reduced and clamped estimate of line 664; the dtype
\* and device of the chosen and of the rejected tensors are those of the
\* log-probabilities (lines 723, 88) or of the empty tensor of lines 672-673,
\* 681-682
KTO_loss(cfg, policy_chosen_logps, policy_rejected_logps, reference_chosen_logps, reference_rejected_logps, KL) ==
    LET chosen_logratios == TSub(policy_chosen_logps, reference_chosen_logps)
        rejected_logratios == TSub(policy_rejected_logps, reference_rejected_logps)
        logps_like == [dtype |-> cfg.policy_dtype, device |-> cfg.device]
        empty_like == ToDevice(ToDtype(EmptyTensor, cfg.policy_dtype), cfg.device)
        chosen_losses == IF Len(policy_chosen_logps) # 0
                            THEN LossAbove(cfg.beta, chosen_logratios, KL) ELSE <<>>
        chosen_rewards == IF Len(policy_chosen_logps) # 0
                            THEN TTimes(cfg.beta, chosen_logratios) ELSE <<>>
        rejected_losses == IF Len(policy_rejected_logps) # 0
                            THEN LossBelow(cfg.beta, rejected_logratios, KL) ELSE <<>>
        rejected_rewards == IF Len(policy_rejected_logps) # 0
                            THEN TTimes(cfg.beta, rejected_logratios) ELSE <<>>
    IN  [losses |-> TTimes(cfg.desirable_weight, chosen_losses)
                    \o TTimes(cfg.undesirable_weight, rejected_losses),
         chosen_rewards |-> chosen_rewards,
         rejected_rewards |-> rejected_rewards,
         chosen_like |-> IF Len(policy_chosen_logps) # 0 THEN logps_like ELSE empty_like,
         rejected_like |-> IF Len(policy_rejected_logps) # 0 THEN logps_like ELSE empty_like]

\* lines 798-805
KTOZero_loss(cfg, policy_chosen_logps, policy_rejected_logps, reference_chosen_logps, reference_rejected_logps) ==
    LET chosen_logratios == TSub(policy_chosen_logps, reference_chosen_logps)
        rejected_logratios == TSub(policy_rejected_logps, reference_rejected_logps)
    IN  [losses |-> LossAbove(cfg.beta, chosen_logratios, F(0))
                    \o LossBelow(cfg.beta, rejected_logratios, F(0)),
         chosen_rewards |-> TTimes(cfg.beta, chosen_logratios),
         rejected_rewards |-> TTimes(cfg.beta, rejected_logratios)]

(***************************************************************************)
(* Gradient tracking: a tensor is shown by the set of models whose         *)
(* parameters its autograd graph reaches; the empty set is a tensor        *)
(* without gradient                                                        *)
(***************************************************************************)
\* Tensor.detach() leaving the graph in place
Detach_off(g) == g

\* Tensor.detach()
Detach(g) == {}

\* the result of an operation on two tensors
Join(g, h) == g \cup h

\* the output of self.forward(model, batch), inside torch.no_grad() or not
forward_graph(model, no_grad) == IF no_grad THEN {} ELSE {model}

\* lines 623-634: the graphs of what SimpleKTOTrainer.loss returns
SimpleKTO_loss_graph(policy_chosen, policy_rejected, reference_chosen, reference_rejected) ==
    LET chosen_KL == Join(policy_chosen, reference_chosen)
        rejected_KL == Join(policy_rejected, reference_rejected)
        chosen_logratios == Join(policy_chosen, reference_chosen)
        rejected_logratios == Join(policy_rejected, reference_rejected)
    IN  [losses |-> Join(Join(chosen_logratios, rejected_KL), Join(chosen_KL, rejected_logratios)),
         chosen_rewards |-> Detach(Join(policy_chosen, reference_chosen)),
         rejected_rewards |-> Detach(Join(policy_rejected, reference_rejected))]

\* lines 660-686: the graphs of what KTOTrainer.loss returns, for n_chosen
\* chosen and n_rejected rejected examples; torch.Tensor([]) has no graph
KTO_loss_graph(n_chosen, n_rejected, policy_chosen, policy_rejected, policy_KL_, reference_chosen, reference_rejected, reference_KL_) ==
    LET KL == Detach(Join(policy_KL_, reference_KL_))
        chosen_logratios == Join(policy_chosen, reference_chosen)
        rejected_logratios == Join(policy_rejected, reference_rejected)
        chosen_losses == IF n_chosen # 0 THEN Join(chosen_logratios, KL) ELSE {}
        chosen_rewards == IF n_chosen # 0 THEN Detach(chosen_logratios) ELSE {}
        rejected_losses == IF n_rejected # 0 THEN Join(KL, rejected_logratios) ELSE {}
        rejected_rewards == IF n_rejected # 0 THEN Detach(rejected_logratios) ELSE {}
    IN  [losses |-> Join(chosen_losses, rejected_losses),
         chosen_rewards |-> chosen_rewards,
         rejected_rewards |-> rejected_rewards]

\* lines 798-805: the graphs of what KTOZeroTrainer.loss returns
KTOZero_loss_graph(policy_chosen, policy_rejected, reference_chosen, reference_rejected) ==
    LET chosen_logratios == Join(policy_chosen, reference_chosen)
        rejected_logratios == Join(policy_rejected, reference_rejected)
    IN  [losses |-> Join(chosen_logratios, rejected_logratios),
         chosen_rewards |-> Detach(Join(policy_chosen, reference_chosen)),
         rejected_rewards |-> Detach(Join(policy_rejected, reference_rejected))]

(***************************************************************************)
(* forward and get_batch_metrics of UnpairedPreferenceTrainer / KTOTrainer *)
(***************************************************************************)
RECURSIVE IndicesOf(_, _, _)
\* lines 563-564, 730-731: the indices up to k whose status is tag, increasing
IndicesOf(status, tag, k) ==
    IF k = 0 THEN <<>>
    ELSE IndicesOf(status, tag, k - 1) \o (IF status[k] = tag THEN <<k>> ELSE <<>>)

\* all_logps[idx, ...]
Take(t, idx) == [j \in 1..Len(idx) |-> t[idx[j]]]

\* lines 562, 729 accepting surplus status tags
StatusMatches_atleast(logps, batch) == Len(batch.status) >= Len(logps)

\* lines 562, 729: the assertion of forward
StatusMatches(logps, batch) == Len(logps) = Len(batch.status)

\* lines 559-568, 726-735: the log-probabilities a model gives the chosen and
\* the rejected examples of the batch
forward(logps, batch) ==
    [chosen |-> Take(logps, IndicesOf(batch.status, "chosen", Len(logps))),
     rejected |-> Take(logps, IndicesOf(batch.status, "rejected", Len(logps)))]

\* lines 587, 756 with the two lengths exchanged
combined_statuses_swapped(n_chosen, n_rejected) ==
    [i \in 1..(n_chosen + n_rejected) |-> IF i <= n_rejected THEN 1 ELSE 0]

\* lines 587, 756: [1] * len(chosen_rewards) + [0] * len(rejected_rewards)
combined_statuses(n_chosen, n_rejected) ==
    [i \in 1..(n_chosen + n_rejected) |-> IF i <= n_chosen THEN 1 ELSE 0]

Collectives == {"all_reduce", "all_rewards", "all_statuses", "all_KL", "all_devices_losses"}

AllSent(c) == \A q \in Ranks : sent[c][q] # <<>>

RECURSIVE CatRanks(_, _)
\* the contributions of ranks 0..k-1 to collective c, concatenated in rank order
CatRanks(c, k) == IF k = 0 THEN <<>> ELSE CatRanks(c, k - 1) \o sent[c][k - 1][1]

\* utils.all_gather_if_needed on a tensor of one dimension: the input when
\* world_size is 1, else every rank's contribution concatenated in rank order
all_gather_if_needed(c, p) ==
    IF world_size = 1 THEN sent[c][p][1] ELSE CatRanks(c, world_size)

\* utils.all_gather_if_needed on a zero-dimensional tensor: the input when
\* world_size is 1, else the contributions stacked in rank order
all_gather_scalar(c, p) ==
    IF world_size = 1 THEN sent[c][p][1]
    ELSE [i \in 1..world_size |-> sent[c][i - 1][1]]

\* dist.nn.all_reduce(KL, op=SUM)
all_reduce(c) == Sum([i \in 1..world_size |-> sent[c][i - 1][1]])

NoLocals == [losses |-> <<>>, chosen_rewards |-> <<>>, rejected_rewards |-> <<>>,
             chosen_like |-> EmptyTensor, rejected_like |-> EmptyTensor,
             graph |-> [losses |-> {}, chosen_rewards |-> {}, rejected_rewards |-> {}],
             reference_graph |-> {},
             KL |-> F(0), all_rewards |-> <<>>, all_statuses |-> <<>>, all_KL |-> <<>>]

MetricsIdle ==
    /\ trainer = [class |-> "SimpleKTOTrainer", beta |-> 1,
                  desirable_weight |-> 1, undesirable_weight |-> 1,
                  policy_dtype |-> "float32"]
    /\ microbatch = [p \in {0} |-> <<>>]
    /\ mpc = [p \in {0} |-> "idle"]
    /\ calls = [p \in {0} |-> <<>>]
    /\ sent = [c \in Collectives |-> [p \in {0} |-> <<>>]]
    /\ local = [p \in {0} |-> NoLocals]
    /\ metrics = [p \in {0} |-> <<>>]

\* config.loss.desirable_weight and config.loss.undesirable_weight
LossWeights == {<<1, 1>>, <<2, 3>>}

\* the trainer classes with a KTO-family loss, config.loss and
\* config.model.policy_dtype
Trainers ==
    {[class |-> c, beta |-> 2, desirable_weight |-> w[1], undesirable_weight |-> w[2],
      policy_dtype |-> "bfloat16"] :
        c \in {"SimpleKTOTrainer", "KTOTrainer", "KTOZeroTrainer"}, w \in LossWeights}

\* the trainer object of rank p: its configuration and, line 88, its device
Self(p) ==
    [class |-> trainer.class, beta |-> trainer.beta,
     desirable_weight |-> trainer.desirable_weight,
     undesirable_weight |-> trainer.undesirable_weight,
     policy_dtype |-> trainer.policy_dtype, device |-> p]

\* the log-probabilities the models give the examples of a batch: a spread
\* of log-ratios, all different, or a policy that sits at the reference
DataSets == {"spread", "at_reference"}

reference_logps(n, p, i) == F(0 - Unit * (2 * (n * p + i) + ((p + i) % 2)))

policy_logps(data, n, p, i) ==
    IF data = "at_reference" THEN reference_logps(n, p, i)
    ELSE F(0 - Unit * ((n * p + i) + ((p + i) % 2) + n))

reference_KL_logps(n, p, i) == F(0 - Unit * i)

policy_KL_logps(data, n, p, i) ==
    IF data = "at_reference" THEN reference_KL_logps(n, p, i)
    ELSE F(0 - Unit * (i * n - p))

\* a microbatch of n examples on rank p with the given status tags
Batch(data, kl, n, p, status) ==
    [status |-> status,
     policy |-> [i \in 1..n |-> policy_logps(data, n, p, i)],
     reference |-> [i \in 1..n |-> reference_logps(n, p, i)],
     policy_KL |-> IF kl THEN [i \in 1..n |-> policy_KL_logps(data, n, p, i)] ELSE <<>>,
     reference_KL |-> IF kl THEN [i \in 1..n |-> reference_KL_logps(n, p, i)] ELSE <<>>]

\* the status tags that come with a microbatch of n examples: one tag for
\* each example, or a list that is one tag too long or too short
StatusTags(n) ==
    [1..n -> {"chosen", "rejected"}]
        \cup {[i \in 1..(n + 1) |-> "chosen"], [i \in 1..(n - 1) |-> "rejected"]}

MetricsInit ==
    /\ fsdp \in BOOLEAN
    /\ world_size \in (IF fsdp THEN 1..MaxWorld ELSE {1})
    /\ arrived = [p \in Ranks |-> 0]
    /\ trainer \in Trainers
    /\ \E data \in DataSets, n \in 1..MaxMicro :
         \E tags \in [Ranks -> StatusTags(n)] :
            microbatch = [p \in Ranks |->
                            Batch(data, trainer.class = "KTOTrainer", n, p, tags[p])]
    /\ mpc = [p \in Ranks |-> "start"]
    /\ calls = [p \in Ranks |-> <<>>]
    /\ sent = [c \in Collectives |-> [p \in Ranks |-> <<>>]]
    /\ local = [p \in Ranks |-> NoLocals]
    /\ metrics = [p \in Ranks |-> <<>>]

\* the rank issues collective c with the contribution x
Issue(p, c, x, next) ==
    /\ sent' = [sent EXCEPT ![c][p] = <<x>>]
    /\ calls' = [calls EXCEPT ![p] = Append(@, c)]
    /\ mpc' = [mpc EXCEPT ![p] = next]

\* lines 575 and 562, 742 and 729: the first forward pass of the step fails
\* its assertion and get_batch_metrics is left with the AssertionError
ForwardRaises(p) ==
    /\ mpc[p] = "start"
    /\ ~StatusMatches(microbatch[p].policy, microbatch[p])
    /\ mpc' = [mpc EXCEPT ![p] = "raised"]
    /\ UNCHANGED <<trainer, microbatch, calls, sent, local, metrics>>
    /\ UNCHANGED notMetrics

\* lines 575-589 with the loss of SimpleKTOTrainer or KTOZeroTrainer: both
\* forward passes, the loss, and the call of the reward gather
UnpairedLoss(p) ==
    /\ mpc[p] = "start"
    /\ trainer.class # "KTOTrainer"
    /\ StatusMatches(microbatch[p].policy, microbatch[p])
    /\ LET pol == forward(microbatch[p].policy, microbatch[p])
           ref == forward(microbatch[p].reference, microbatch[p])
           out == IF trainer.class = "SimpleKTOTrainer"
                     THEN SimpleKTO_loss(trainer, pol.chosen, pol.rejected,
                                         ref.chosen, ref.rejected)
                     ELSE KTOZero_loss(trainer, pol.chosen, pol.rejected,
                                       ref.chosen, ref.rejected)
           polg == forward_graph("policy", FALSE)
           refg == forward_graph("reference_model", TRUE)
           graph == IF trainer.class = "SimpleKTOTrainer"
                       THEN SimpleKTO_loss_graph(polg, polg, refg, refg)
                       ELSE KTOZero_loss_graph(polg, polg, refg, refg)
       IN  /\ local' = [local EXCEPT ![p] =
                 [@ EXCEPT !.losses = out.losses,
                           !.chosen_rewards = out.chosen_rewards,
                           !.rejected_rewards = out.rejected_rewards,
                           !.graph = graph,
                           !.reference_graph = refg]]
           /\ Issue(p, "all_rewards", out.chosen_rewards \o out.rejected_rewards,
                    "all_rewards")
    /\ UNCHANGED <<trainer, microbatch, metrics>>
    /\ UNCHANGED notMetrics

\* lines 742-744 and 660-662: both forward passes of KTOTrainer, the local
\* KL estimate, and the call of the all-reduce
KTOForward(p) ==
    /\ mpc[p] = "start"
    /\ trainer.class = "KTOTrainer"
    /\ StatusMatches(microbatch[p].policy, microbatch[p])
    /\ LET KL == Mean(TSub(microbatch[p].policy_KL, microbatch[p].reference_KL))
       IN  Issue(p, "all_reduce", KL, "all_reduce")
    /\ UNCHANGED <<trainer, microbatch, local, metrics>>
    /\ UNCHANGED notMetrics

\* lines 663-686 and 755-758: the reduced KL, the KTO loss, and the call of
\* the reward gather
KTOLoss(p) ==
    /\ mpc[p] = "all_reduce"
    /\ AllSent("all_reduce")
    /\ LET KL == ClampMin0(Over(all_reduce("all_reduce"), world_size))
           pol == forward(microbatch[p].policy, microbatch[p])
           ref == forward(microbatch[p].reference, microbatch[p])
           out == KTO_loss(Self(p), pol.chosen, pol.rejected,
                           ref.chosen, ref.rejected, KL)
           polg == forward_graph("policy", FALSE)
           refg == forward_graph("reference_model", TRUE)
           graph == KTO_loss_graph(Len(pol.chosen), Len(pol.rejected),
                                   polg, polg, polg, refg, refg, refg)
       IN  /\ local' = [local EXCEPT ![p] =
                 [@ EXCEPT !.losses = out.losses,
                           !.chosen_rewards = out.chosen_rewards,
                           !.rejected_rewards = out.rejected_rewards,
                           !.chosen_like = out.chosen_like,
                           !.rejected_like = out.rejected_like,
                           !.graph = graph,
                           !.reference_graph = refg,
                           !.KL = KL]]
           /\ Issue(p, "all_rewards", out.chosen_rewards \o out.rejected_rewards,
                    "all_rewards")
    /\ UNCHANGED <<trainer, microbatch, metrics>>
    /\ UNCHANGED notMetrics

\* lines 589-590, 758-759 with the status gather left out by a rank that has
\* no rejected example
GatherRewards_skip(p) ==
    /\ mpc[p] = "all_rewards"
    /\ AllSent("all_rewards")
    /\ local' = [local EXCEPT ![p].all_rewards = all_gather_if_needed("all_rewards", p)]
    /\ IF Len(local[p].rejected_rewards) = 0
          THEN Issue(p, "all_devices_losses", local[p].losses, "all_devices_losses")
          ELSE Issue(p, "all_statuses",
                     combined_statuses(Len(local[p].chosen_rewards),
                                       Len(local[p].rejected_rewards)),
                     "all_statuses")
    /\ UNCHANGED <<trainer, microbatch, metrics>>
    /\ UNCHANGED notMetrics

\* lines 589-590, 758-759: the reward gather returns, the status gather is called
GatherRewards(p) ==
    /\ mpc[p] = "all_rewards"
    /\ AllSent("all_rewards")
    /\ local' = [local EXCEPT ![p].all_rewards = all_gather_if_needed("all_rewards", p)]
    /\ Issue(p, "all_statuses",
             combined_statuses(Len(local[p].chosen_rewards), Len(local[p].rejected_rewards)),
             "all_statuses")
    /\ UNCHANGED <<trainer, microbatch, metrics>>
    /\ UNCHANGED notMetrics

\* lines 590-593, 759-760: the status gather returns; KTOTrainer calls the KL
\* gather, UnpairedPreferenceTrainer the loss gather
GatherStatuses(p) ==
    /\ mpc[p] = "all_statuses"
    /\ AllSent("all_statuses")
    /\ local' = [local EXCEPT ![p].all_statuses = all_gather_if_needed("all_statuses", p)]
    /\ IF trainer.class = "KTOTrainer"
          THEN Issue(p, "all_KL", local[p].KL, "all_KL")
          ELSE Issue(p, "all_devices_losses", local[p].losses, "all_devices_losses")
    /\ UNCHANGED <<trainer, microbatch, metrics>>
    /\ UNCHANGED notMetrics

\* lines 760-764: the KL gather returns, the loss gather is called
GatherKL(p) ==
    /\ mpc[p] = "all_KL"
    /\ AllSent("all_KL")
    /\ local' = [local EXCEPT ![p].all_KL = all_gather_scalar("all_KL", p)]
    /\ Issue(p, "all_devices_losses", local[p].losses, "all_devices_losses")
    /\ UNCHANGED <<trainer, microbatch, metrics>>
    /\ UNCHANGED notMetrics

\* lines 591-606, 761-775: the loss gather returns; the gathered rewards are
\* split by the gathered statuses and the metrics are filled in
GatherLosses(p) ==
    /\ mpc[p] = "all_devices_losses"
    /\ AllSent("all_devices_losses")
    /\ LET all_rewards == local[p].all_rewards
           all_statuses == local[p].all_statuses
           chosen_rewards_idx == IndicesOf(all_statuses, 1, Len(all_statuses))
           rejected_rewards_idx == IndicesOf(all_statuses, 0, Len(all_statuses))
           chosen == Take(all_rewards, chosen_rewards_idx)
           rejected == Take(all_rewards, rejected_rewards_idx)
       IN  metrics' = [metrics EXCEPT ![p] =
              <<[rewards_chosen |-> chosen,
                 rewards_rejected |-> rejected,
                 rewards_margins |-> <<Sub(NanToNum0(Mean(chosen)), NanToNum0(Mean(rejected)))>>,
                 KL_estimate |-> local[p].all_KL,
                 loss |-> all_gather_if_needed("all_devices_losses", p),
                 loss_mean |-> Mean(local[p].losses)]>>]
    /\ mpc' = [mpc EXCEPT ![p] = "done"]
    /\ UNCHANGED <<trainer, microbatch, calls, sent, local>>
    /\ UNCHANGED notMetrics

(***************************************************************************)
(* Batch transport: the per-rank slices of a global batch                  *)
(***************************************************************************)
SliceIdle ==
    /\ batch_len = [train |-> 0, eval |-> 0]
    /\ remainder = "dropped"
    /\ local_range = [p \in {0} |-> [train |-> None, eval |-> None]]

\* utils.slice_and_move_batch_for_device on a batch of n examples: the
\* half-open index range [start, end) of equal chunks in rank order; a
\* remainder is left out or goes to the last rank
slice_and_move_batch_for_device(n, rank, size, device) ==
    LET chunk_size == n \div size
    IN  [start |-> chunk_size * rank,
         end |-> IF rank = size - 1 /\ remainder = "last_shard"
                    THEN n ELSE chunk_size * (rank + 1),
         device |-> device]

\* lines 257, 360, 394 with rank 0 passed for every process
LocalSlice_rank0(n, p) == slice_and_move_batch_for_device(n, 0, world_size, p)

\* lines 257, 360, 394: the call, with self.rank, self.world_size, self.rank
LocalSlice(n, p) == slice_and_move_batch_for_device(n, p, world_size, p)

SliceInit ==
    /\ fsdp \in BOOLEAN
    /\ world_size \in (IF fsdp THEN 1..MaxWorld ELSE {1})
    /\ arrived = [p \in Ranks |-> 0]
    /\ batch_len \in [train : 1..MaxBatchLen, eval : 1..MaxBatchLen]
    /\ remainder \in {"dropped", "last_shard"}
    /\ local_range = [p \in Ranks |-> [train |-> None, eval |-> None]]

\* lines 256-257, 359-360: the rank takes its slice of an eval batch
SliceEvalBatch(p) ==
    /\ local_range[p].eval = None
    /\ local_range[p].train = None
    /\ local_range' = [local_range EXCEPT ![p].eval = <<LocalSlice(batch_len.eval, p)>>]
    /\ UNCHANGED <<batch_len, remainder>>
    /\ UNCHANGED notSlice

\* line 394: the rank takes its slice of the train batch
SliceTrainBatch(p) ==
    /\ local_range[p].train = None
    /\ local_range' = [local_range EXCEPT ![p].train = <<LocalSlice(batch_len.train, p)>>]
    /\ UNCHANGED <<batch_len, remainder>>
    /\ UNCHANGED notSlice

(***************************************************************************)
(* Specifications                                                          *)
(***************************************************************************)
Init == TrainInit /\ GroupIdle /\ SaveIdle /\ ShardIdle /\ MetricsIdle /\ SliceIdle

Next ==
    \/ TrainStep
    \/ TrainExhausted

Spec == Init /\ [][Next]_vars

\* the interpreter keeps running train(): a loop body or the return that can
\* be taken is taken
SpecLive == Spec /\ WF_vars(Next)

InitSave == TrainPaused /\ SaveInit /\ ShardIdle /\ MetricsIdle /\ SliceIdle

NextSave ==
    \/ \E p \in Ranks : SavePolicy(p)
    \/ \E p \in Ranks : SaveBarrierEnter(p)
    \/ \E p \in Ranks : SaveBarrierLeave(p)
    \/ \E p \in Ranks : SaveOptimizer(p)
    \/ \E p \in Ranks : SaveScheduler(p)
    \/ \E p \in Ranks : SaveUnsharded(p)
    \/ \E p \in Ranks : SaveResume(p)

SpecSave == InitSave /\ [][NextSave]_vars

InitShard == TrainIdle /\ SaveIdle /\ ShardInit /\ MetricsIdle /\ SliceIdle

NextShard ==
    \/ \E p \in Ranks : Construct(p)
    \/ \E p \in Ranks : ShardAssert(p)
    \/ \E p \in Ranks : ShardWrap(p)
    \/ \E p \in Ranks : ShardCheckpointing(p)
    \/ \E p \in Ranks : ShardBarrierEnter(p)
    \/ \E p \in Ranks : ShardBarrierLeave(p)
    \/ \E p \in Ranks : TrainBegin(p)
    \/ \E p \in Ranks : Forward(p)

SpecShard == InitShard /\ [][NextShard]_vars

InitMetrics == TrainIdle /\ SaveIdle /\ ShardIdle /\ MetricsInit /\ SliceIdle

NextMetrics ==
    \/ \E p \in Ranks : ForwardRaises(p)
    \/ \E p \in Ranks : UnpairedLoss(p)
    \/ \E p \in Ranks : KTOForward(p)
    \/ \E p \in Ranks : KTOLoss(p)
    \/ \E p \in Ranks : GatherRewards(p)
    \/ \E p \in Ranks : GatherStatuses(p)
    \/ \E p \in Ranks : GatherKL(p)
    \/ \E p \in Ranks : GatherLosses(p)

SpecMetrics == InitMetrics /\ [][NextMetrics]_vars

InitSlice == TrainIdle /\ SaveIdle /\ ShardIdle /\ MetricsIdle /\ SliceInit

NextSlice ==
    \/ \E p \in Ranks : SliceEvalBatch(p)
    \/ \E p \in Ranks : SliceTrainBatch(p)

SpecSlice == InitSlice /\ [][NextSlice]_vars

(***************************************************************************)
(* Properties of the batch slices                               SpecSlice  *)
(***************************************************************************)
\* the indices of the range a rank took of batch b (0-based), {} before
IndicesTaken(p, b) ==
    IF local_range[p][b] = None THEN {}
    ELSE {i \in 0..(MaxBatchLen + 1) :
            local_range[p][b][1].start <= i /\ i < local_range[p][b][1].end}

\* C24: the slices the ranks take of a batch are index ranges inside the
\* batch, in rank order and without overlap, each on the rank's own device;
\* when the batch size is a multiple of world_size the slices are of equal
\* length and, once every rank has taken its slice, cover the whole batch.
C24_SlicesPartitionBatch ==
    \A b \in {"train", "eval"} :
        /\ \A p \in Ranks : local_range[p][b] # None =>
              /\ 0 <= local_range[p][b][1].start
              /\ local_range[p][b][1].start <= local_range[p][b][1].end
              /\ local_range[p][b][1].end <= batch_len[b]
              /\ local_range[p][b][1].device = p
        /\ \A p, q \in Ranks :
              (p < q /\ local_range[p][b] # None /\ local_range[q][b] # None) =>
                  local_range[p][b][1].end <= local_range[q][b][1].start
        /\ batch_len[b] % world_size = 0 =>
              /\ \A p \in Ranks : local_range[p][b] # None =>
                    Cardinality(IndicesTaken(p, b)) = batch_len[b] \div world_size
              /\ (\A p \in Ranks : local_range[p][b] # None) =>
                    UNION {IndicesTaken(p, b) : p \in Ranks} = 0..(batch_len[b] - 1)

C24_Witness ==
    /\ world_size >= 2
    /\ batch_len.train = 2 * world_size
    /\ batch_len.eval % world_size # 0
    /\ \A p \in Ranks : local_range[p].train # None /\ local_range[p].eval # None
    /\ Cardinality(IndicesTaken(1, "train")) = 2

(***************************************************************************)
(* Properties of get_batch_metrics                             SpecMetrics *)
(***************************************************************************)
\* the collectives of one step, in the order of the code
ExpectedCalls ==
    IF trainer.class = "KTOTrainer"
        THEN <<"all_reduce", "all_rewards", "all_statuses", "all_KL", "all_devices_losses">>
        ELSE <<"all_rewards", "all_statuses", "all_devices_losses">>

IsPrefix(s, t) == Len(s) <= Len(t) /\ SubSeq(t, 1, Len(s)) = s

NumberOf(p, tag) == Cardinality({i \in 1..Len(microbatch[p].status) :
                                    microbatch[p].status[i] = tag})

\* C1: whatever the split of its microbatch into chosen and rejected
\* examples, every rank issues the collectives of the step in the one order
\* of the code (the KL all-reduce first for KTOTrainer, then the reward,
\* status, KL and loss gathers), each once, and has issued all of them when
\* get_batch_metrics returns.
C1_SameCollectiveSequence ==
    \A p \in Ranks :
        /\ IsPrefix(calls[p], ExpectedCalls)
        /\ mpc[p] = "done" => calls[p] = ExpectedCalls

C1_Witness ==
    /\ world_size >= 2
    /\ trainer.class = "KTOTrainer"
    /\ \E p \in Ranks : NumberOf(p, "chosen") = 0
    /\ \E q \in Ranks : NumberOf(q, "rejected") = 0
    /\ \A p \in Ranks : mpc[p] = "done"

\* C5: on a microbatch with no chosen or no rejected example, no loss and
\* no reward the loss function returns is NaN, and neither is the loss mean.
C5_NoNaNOnEmptyPartition ==
    \A p \in Ranks :
        (NumberOf(p, "chosen") = 0 \/ NumberOf(p, "rejected") = 0) =>
            /\ ~HasNaN(local[p].losses)
            /\ ~HasNaN(local[p].chosen_rewards)
            /\ ~HasNaN(local[p].rejected_rewards)
            /\ mpc[p] = "done" => ~metrics[p][1].loss_mean.nan

\* C13: a rank whose microbatch has a number of status tags other than its
\* number of log-probabilities issues no collective of the step and records
\* no metrics: it is at the start of the step or has raised in forward.
C13_StatusMismatchRaises ==
    \A p \in Ranks :
        Len(microbatch[p].status) # Len(microbatch[p].policy) =>
            /\ mpc[p] \in {"start", "raised"}
            /\ calls[p] = <<>>
            /\ \A c \in Collectives : sent[c][p] = <<>>
            /\ local[p] = NoLocals
            /\ metrics[p] = <<>>

C13_Witness ==
    /\ world_size >= 2
    /\ \E p \in Ranks : /\ Len(microbatch[p].status) > Len(microbatch[p].policy)
                         /\ mpc[p] = "raised"
    /\ \E q \in Ranks : /\ Len(microbatch[q].status) < Len(microbatch[q].policy)
                         /\ mpc[q] = "raised"
    /\ \E r \in Ranks : mpc[r] \in {"all_reduce", "all_rewards"}

\* the reward of example i of rank q, from the log-probabilities of the batch
RewardOf(q, i) ==
    Times(trainer.beta, Sub(microbatch[q].policy[i], microbatch[q].reference[i]))

Examples(tag) ==
    {e \in Ranks \X (1..MaxMicro) :
        /\ e[2] <= Len(microbatch[e[1]].status)
        /\ microbatch[e[1]].status[e[2]] = tag}

\* the sequence t holds exactly the rewards of the examples tagged tag
HoldsRewardsOf(t, tag) ==
    /\ Len(t) = Cardinality(Examples(tag))
    /\ \A e \in Examples(tag) :
          Cardinality({j \in 1..Len(t) : t[j] = RewardOf(e[1], e[2])})
            = Cardinality({f \in Examples(tag) : RewardOf(f[1], f[2]) = RewardOf(e[1], e[2])})

\* C6: the metrics a rank returns hold under rewards/chosen exactly the
\* rewards of the chosen examples of all ranks, and under rewards/rejected
\* exactly those of the rejected examples of all ranks, as multisets.
C6_GatheredRewardsSplit ==
    \A p \in Ranks :
        mpc[p] = "done" =>
            /\ HoldsRewardsOf(metrics[p][1].rewards_chosen, "chosen")
            /\ HoldsRewardsOf(metrics[p][1].rewards_rejected, "rejected")

C6_Witness ==
    /\ world_size >= 2
    /\ \E p \in Ranks : NumberOf(p, "chosen") = 0
    /\ \E q \in Ranks : NumberOf(q, "rejected") = 0
    /\ \E r \in Ranks : /\ mpc[r] = "done"
                         /\ Len(metrics[r][1].rewards_chosen) >= 2
                         /\ metrics[r][1].rewards_chosen[1] # metrics[r][1].rewards_chosen[2]

\* the rank has returned from the loss function of its trainer
PastLoss(p) ==
    mpc[p] \in {"all_rewards", "all_statuses", "all_KL", "all_devices_losses", "done"}

\* log p_policy(y|x) - log p_reference(y|x) of example i of rank p
LogRatio(p, i) == Sub(microbatch[p].policy[i], microbatch[p].reference[i])

\* the desirable and the undesirable loss of the docstring of KTOTrainer.loss
\* for example i of rank p, with the KL term the rank used
DesirableLoss(p, i) ==
    Sub(F(Unit), Sigmoid(Times(trainer.beta, Sub(LogRatio(p, i), local[p].KL))))

UndesirableLoss(p, i) ==
    Sub(F(Unit), Sigmoid(Times(trainer.beta, Sub(local[p].KL, LogRatio(p, i)))))

\* C15: the losses KTOTrainer.loss returns are the desirable losses of the
\* chosen examples times desirable_weight, in batch order, followed by the
\* undesirable losses of the rejected examples times undesirable_weight; a
\* microbatch without rejected (chosen) examples gives empty rejected
\* (chosen) rewards and tensors of the policy dtype on the rank's device.
C15_KTOLossConcatenation ==
    \A p \in Ranks :
        (trainer.class = "KTOTrainer" /\ PastLoss(p)) =>
            LET status == microbatch[p].status
                chosen_idx == IndicesOf(status, "chosen", Len(status))
                rejected_idx == IndicesOf(status, "rejected", Len(status))
                n_chosen == Len(chosen_idx)
                n_rejected == Len(rejected_idx)
                on_device == [dtype |-> trainer.policy_dtype, device |-> p]
            IN  /\ Len(local[p].losses) = n_chosen + n_rejected
                /\ \A j \in 1..n_chosen :
                      local[p].losses[j] =
                          Times(trainer.desirable_weight, DesirableLoss(p, chosen_idx[j]))
                /\ \A j \in 1..n_rejected :
                      local[p].losses[n_chosen + j] =
                          Times(trainer.undesirable_weight, UndesirableLoss(p, rejected_idx[j]))
                /\ n_rejected = 0 => /\ local[p].rejected_rewards = <<>>
                                     /\ local[p].rejected_like = on_device
                /\ n_chosen = 0 => /\ local[p].chosen_rewards = <<>>
                                   /\ local[p].chosen_like = on_device

C15_Witness ==
    /\ trainer.class = "KTOTrainer"
    /\ trainer.desirable_weight # trainer.undesirable_weight
    /\ world_size >= 2
    /\ \E p \in Ranks : /\ mpc[p] = "done"
                         /\ NumberOf(p, "rejected") = 0
                         /\ Len(local[p].losses) = 2
                         /\ local[p].losses[1].v > 0
    /\ \E q \in Ranks : /\ mpc[q] = "done"
                         /\ NumberOf(q, "chosen") = 0
                         /\ local[q].losses[1].v > 0

RECURSIVE SumV(_)
\* the sum of the values of a tensor without NaN, as an integer
SumV(t) == IF t = <<>> THEN 0 ELSE t[1].v + SumV(Tail(t))

\* the local KL estimates k_1 .. k_n the ranks handed to the all-reduce
LocalKLs == [i \in 1..world_size |-> sent["all_reduce"][i - 1][1]]

\* C16: each local KL estimate is the mean policy-minus-reference log-ratio
\* of the rank's KL examples; the KL a rank uses is max(0, (k_1+...+k_n)/n),
\* it is not negative, and all ranks use the same value.
C16_ReducedKL ==
    \A p \in Ranks :
        (trainer.class = "KTOTrainer" /\ PastLoss(p)) =>
            LET avg == SumV(LocalKLs) \div world_size
            IN  /\ \A q \in Ranks :
                      LocalKLs[q + 1] =
                          F(SumV(TSub(microbatch[q].policy_KL, microbatch[q].reference_KL))
                                \div Len(microbatch[q].policy_KL))
                /\ local[p].KL = F(IF avg < 0 THEN 0 ELSE avg)
                /\ ~local[p].KL.nan /\ local[p].KL.v >= 0
                /\ \A q \in Ranks : PastLoss(q) => local[q].KL = local[p].KL

C16_Witness ==
    /\ trainer.class = "KTOTrainer"
    /\ world_size >= 2
    /\ \A p \in Ranks : mpc[p] = "done" /\ local[p].KL = F(0)
    /\ SumV(LocalKLs) < 0
    /\ \E q \in Ranks : LocalKLs[q + 1].v > 0

\* the mean of a list of rewards, 0 for the empty list
MeanOrZero(t) == IF Len(t) = 0 THEN 0 ELSE SumV(t) \div Len(t)

\* C17: the metrics of a step hold exactly one margin, the mean of the
\* gathered chosen rewards minus the mean of the gathered rejected rewards,
\* where the mean of an empty partition is 0.
C17_RewardMargin ==
    \A p \in Ranks :
        mpc[p] = "done" =>
            /\ Len(metrics[p]) = 1
            /\ metrics[p][1].rewards_margins =
                  <<F(MeanOrZero(metrics[p][1].rewards_chosen)
                        - MeanOrZero(metrics[p][1].rewards_rejected))>>

C17_Witness ==
    /\ world_size >= 2
    /\ \A p \in Ranks : NumberOf(p, "chosen") = 0
    /\ \E r \in Ranks : /\ mpc[r] = "done"
                         /\ metrics[r][1].rewards_rejected # <<>>
                         /\ metrics[r][1].rewards_margins[1].v # 0

\* C23: of what a loss function returns in a training step, the rewards
\* carry no gradient and the losses carry gradient to the policy and to
\* nothing else; the reference log-probabilities carry none.
C23_OnlyLossCarriesGradient ==
    \A p \in Ranks :
        PastLoss(p) =>
            /\ local[p].graph.chosen_rewards = {}
            /\ local[p].graph.rejected_rewards = {}
            /\ local[p].graph.losses = {"policy"}
            /\ local[p].reference_graph = {}

C23_Witness ==
    /\ world_size >= 2
    /\ \E p \in Ranks : /\ trainer.class = "KTOTrainer"
                         /\ mpc[p] = "done"
                         /\ NumberOf(p, "chosen") = 0
                         /\ local[p].graph.losses = {"policy"}
                         /\ local[p].rejected_rewards # <<>>

\* the policy gives every example the log-probability the reference gives it
AtReference ==
    \A p \in Ranks :
        /\ microbatch[p].policy = microbatch[p].reference
        /\ microbatch[p].policy_KL = microbatch[p].reference_KL

\* C19: with the policy at the reference and both weights 1, every reward a
\* loss function returns is 0 and every loss is 1 - sigmoid(0) = 0.5.
C19_AtReferenceLossHalf ==
    (AtReference /\ trainer.desirable_weight = 1 /\ trainer.undesirable_weight = 1) =>
        \A p \in Ranks :
            PastLoss(p) =>
                /\ \A i \in 1..Len(local[p].chosen_rewards) : local[p].chosen_rewards[i] = F(0)
                /\ \A i \in 1..Len(local[p].rejected_rewards) : local[p].rejected_rewards[i] = F(0)
                /\ \A i \in 1..Len(local[p].losses) : local[p].losses[i] = F(Unit \div 2)

(***************************************************************************)
(* Properties of save()                                          SpecSave  *)
(***************************************************************************)
Written(filename) == \E i \in 1..Len(disk) : disk[i].file = filename

\* number of the barriers of save() the rank has left behind
BarriersPassed(p) ==
    CASE spc[p] \in {"save", "barrier_492", "in_492"} -> 0
      [] spc[p] \in {"optimizer", "barrier_502", "in_502"} -> 1
      [] spc[p] \in {"scheduler", "raised", "barrier_508", "in_508"} -> 2
      [] OTHER -> IF save_model_only THEN 1 ELSE 3

\* C2: in a sharded save on two or more ranks no rank raises inside save(),
\* so every rank reaches every barrier and nobody waits at one for ever.
C2_NoRankRaises ==
    (fsdp /\ world_size >= 2) => \A p \in Ranks : spc[p] # "raised"

\* C3: in a sharded save every write to the filesystem (policy.pt,
\* optimizer.pt, scheduler.pt, the tokenizer) is made by rank 0.
C3_OnlyRankZeroWrites ==
    fsdp => \A i \in 1..Len(disk) : disk[i].rank = 0

C3_Witness ==
    /\ fsdp /\ world_size >= 2 /\ ~save_model_only
    /\ Written("policy.pt") /\ Written("optimizer.pt") /\ Written("scheduler.pt")
    /\ \E p \in Ranks : p # 0 /\ BarriersPassed(p) = 2

\* the artifacts written so far by write_state_dict, in order
Artifacts == SelectSeq(disk, LAMBDA w : w.file # "tokenizer")

\* the artifacts of a complete save
ExpectedArtifacts ==
    IF save_model_only THEN <<"policy.pt">>
    ELSE <<"policy.pt", "optimizer.pt", "scheduler.pt">>

\* the process that writes has made the last write of save()
WritesDone ==
    IF save_model_only THEN spc[0] \notin {"save"}
    ELSE spc[0] \in {"barrier_508", "in_508", "returned", "training"}

\* C22: the artifacts save() writes are policy.pt alone when save_model_only
\* is true and policy.pt, optimizer.pt, scheduler.pt in this order when it
\* is false, each once; every artifact stores the example counter as its
\* step index and the metrics passed to save(), None stored as the empty
\* mapping.
C22_SaveArtifacts ==
    /\ Len(Artifacts) <= Len(ExpectedArtifacts)
    /\ \A i \in 1..Len(Artifacts) :
          /\ Artifacts[i].file = ExpectedArtifacts[i]
          /\ Artifacts[i].step_idx = example_counter
          /\ Artifacts[i].metrics = (IF save_metrics = None THEN <<EmptyDict>> ELSE save_metrics)
    /\ WritesDone => Len(Artifacts) = Len(ExpectedArtifacts)

C22_Witness ==
    /\ fsdp /\ world_size >= 2 /\ ~save_model_only
    /\ save_metrics = None /\ example_counter > 0
    /\ Len(Artifacts) = 3
    /\ Artifacts[3].metrics = <<EmptyDict>>

\* C4: a rank other than 0 that has left the barrier following an artifact
\* (and so may be training again) finds that artifact already written.
C4_WriteBeforeBarrierPassed ==
    fsdp => \A p \in Ranks \ {0} :
        /\ BarriersPassed(p) >= 1 => Written("policy.pt")
        /\ BarriersPassed(p) >= 2 => Written("optimizer.pt")
        /\ BarriersPassed(p) >= 3 => Written("scheduler.pt")

C4_Witness ==
    /\ fsdp /\ world_size >= 2
    /\ \E p \in Ranks \ {0} : BarriersPassed(p) = 2 /\ Written("optimizer.pt")
    /\ spc[0] = "in_502"

(***************************************************************************)
(* Properties of __init__ / shard()                              SpecShard *)
(***************************************************************************)
\* the rank has wrapped every module it has to and entered the barrier
ShardingDone(q) ==
    /\ wrapped[q] = ShardedModules
    /\ hpc[q] \in {"in_185", "constructed", "train", "raised_341", "forward"}

\* C7: with fsdp on, a rank that is past the post-sharding barrier (its
\* trainer is constructed, or it has run a forward pass) finds that every
\* rank has finished sharding the policy and the reference model.
C7_BarrierBeforeForward ==
    fsdp => \A p \in Ranks :
        hpc[p] \in {"constructed", "train", "raised_341", "forward"}
            => \A q \in Ranks : ShardingDone(q)

\* C11: with an unknown optimizer name no rank finishes construction, shards
\* a model, enters the barrier or runs a forward pass: the error is raised
\* in the constructor, before any of these.
C11_UnknownOptimizerFailsEarly ==
    ~model_config.optimizer => \A p \in Ranks :
        /\ hpc[p] \in {"new", "shard", "raised"}
        /\ wrapped[p] = {}
        /\ arrived[p] = 0

\* C12: with fsdp on and no block_name, no rank wraps a module, applies a
\* checkpointing wrapper or enters the barrier, and none finishes construction.
C12_MissingBlockNameFailsEarly ==
    (fsdp /\ ~model_config.block_name) => \A p \in Ranks :
        /\ hpc[p] \in {"new", "shard", "raised"}
        /\ wrapped[p] = {}
        /\ checkpointed[p] = {}
        /\ arrived[p] = 0

C12_Witness ==
    /\ fsdp /\ ~model_config.block_name /\ world_size >= 2
    /\ model_config.reference_model
    /\ \A p \in Ranks : hpc[p] = "raised"

\* C14: when activation checkpointing is asked for and its import fails, no
\* rank raises in shard(), the failure is handed to rank0_print, no module
\* gets a checkpointing wrapper, and a rank that left shard() went through
\* the barrier.
C14_CheckpointingDegrades ==
    (fsdp /\ model_config.block_name /\ model_config.activation_checkpointing
          /\ ~model_config.checkpoint_support) => \A p \in Ranks :
        /\ hpc[p] # "raised"
        /\ checkpointed[p] = {}
        /\ hpc[p] \in {"barrier_185", "in_185", "constructed", "train", "raised_341", "forward"}
             => /\ printed[p][Len(printed[p])] = "FSDP activation checkpointing not available:"
                /\ wrapped[p] = ShardedModules
        /\ hpc[p] \in {"constructed", "train", "raised_341", "forward"} => arrived[p] = 1

\* C21: with fsdp on a rank calls shard() once, in its constructor, and never
\* again; with fsdp off it never calls it: no module is wrapped or given a
\* checkpointing wrapper and no barrier is entered.
C21_ShardOnceIffFsdp ==
    \A p \in Ranks :
        /\ fsdp => shard_calls[p] = (IF hpc[p] = "new" THEN 0 ELSE 1)
        /\ ~fsdp => /\ shard_calls[p] = 0
                    /\ wrapped[p] = {}
                    /\ checkpointed[p] = {}
                    /\ arrived[p] = 0
                    /\ hpc[p] \in {"new", "constructed", "train", "raised_341", "forward"}

C21_Witness ==
    /\ fsdp /\ world_size >= 2
    /\ \A p \in Ranks : hpc[p] = "forward" /\ shard_calls[p] = 1 /\ wrapped[p] # {}

C14_Witness ==
    /\ fsdp /\ world_size >= 2 /\ model_config.block_name
    /\ model_config.activation_checkpointing /\ ~model_config.checkpoint_support
    /\ model_config.reference_model
    /\ \E p \in Ranks : hpc[p] = "in_185" /\ Len(printed[p]) = 2
    /\ \E q \in Ranks : hpc[q] = "constructed"

C7_Witness ==
    /\ fsdp /\ world_size >= 2
    /\ model_config.activation_checkpointing /\ ~model_config.checkpoint_support
    /\ model_config.reference_model
    /\ \E p \in Ranks : hpc[p] = "forward"
    /\ \E q \in Ranks : hpc[q] = "in_185"

(***************************************************************************)
(* Properties of train()                                             Spec  *)
(***************************************************************************)
\* C8: the optimizer-side calls (clip, step, zero_grad, scheduler step, in
\* that order) are made by exactly the loop bodies that end an accumulation
\* cycle; the accumulation counter is batch_counter mod G, and the optimizer
\* and the scheduler have each been stepped floor(batch_counter / G) times.
C8_AccumulationCycle ==
    LET G == config.gradient_accumulation_steps
    IN  /\ gradients_accumulated \in 0..(G - 1)
        /\ gradients_accumulated = batch_counter % G
        /\ optimizer_steps = batch_counter \div G
        /\ scheduler_steps = batch_counter \div G
        /\ step_ops = (IF batch_counter > 0 /\ batch_counter % G = 0
                         THEN <<"clip_gradient", "optimizer.step",
                                "optimizer.zero_grad", "scheduler.step">>
                         ELSE <<>>)

C8_Witness ==
    /\ config.gradient_accumulation_steps = 2
    /\ batch_counter = 5
    /\ optimizer_steps = 2
    /\ gradients_accumulated = 1

PositiveEvals == SelectSeq(evals, LAMBDA c : c > 0)

\* C9: once a loop body has passed its evaluation guard at counter c, one
\* evaluation has run for each positive multiple of eval_every up to c, and
\* consecutive evaluations are eval_every examples apart.
C9_EvalEveryMultiple ==
    batch_counter > 0 =>
        /\ Len(PositiveEvals) = (example_counter - config.batch_size) \div config.eval_every
        /\ \A i \in 1..(Len(PositiveEvals) - 1) :
               PositiveEvals[i + 1] - PositiveEvals[i] = config.eval_every

\* C10: a loop body flushes the log exactly when it ended an accumulation
\* cycle and either nothing was flushed before or the clock read at the check
\* is more than minimum_log_interval_secs after the previous flush; any two
\* consecutive flushes are more than minimum_log_interval_secs apart.
C10_LogFlushSpacing ==
    /\ flush.checked =>
         (flush.flushed <=>
            /\ gradients_accumulated = 0
            /\ \/ flush.since = None
               \/ flush.at - flush.since[1] > config.minimum_log_interval_secs)
    /\ \A i \in 1..(Len(flush_times) - 1) :
         flush_times[i + 1] - flush_times[i] > config.minimum_log_interval_secs

C10_Witness ==
    /\ config.minimum_log_interval_secs = 1
    /\ config.gradient_accumulation_steps = 1
    /\ Len(flush_times) = 2
    /\ batch_counter >= 4
    /\ flush.checked /\ ~flush.flushed

\* the phases of the trace, without their batches
PhaseAt(i) == trace[i].phase

\* C25: once a loop body has run, an evaluation at example counter 0 has
\* run if and only if do_first_eval is set; every checkpoint train() has
\* written was made at a counter greater than 0 with debug off and
\* intermediate_checkpoints on, right after the evaluation at that counter,
\* as a model-only save to step-<counter> with that evaluation's means.
C25_FirstEvalAndCheckpoints ==
    /\ batch_counter = 0 => evals = <<>>
    /\ batch_counter > 0 =>
          ((\E i \in 1..Len(evals) : evals[i] = 0) <=> config.do_first_eval)
    /\ \A i \in 1..Len(checkpoints) :
          LET counter == checkpoints[i].output_dir[2]
          IN  /\ checkpoints[i].output_dir[1] = "step"
              /\ counter > 0
              /\ ~config.debug /\ config.intermediate_checkpoints
              /\ \E j \in 1..Len(evals) : evals[j] = counter
              /\ checkpoints[i].metrics = mean_eval_metrics(counter)
              /\ checkpoints[i].save_model_only

C25_Witness ==
    /\ config.do_first_eval /\ config.intermediate_checkpoints /\ ~config.debug
    /\ Len(evals) = 3 /\ evals[1] = 0
    /\ Len(checkpoints) = 2
    /\ checkpoints[2].output_dir = <<"step", 2 * config.eval_every>>

\* C26: the latest loop body forced garbage collection and the release of
\* the allocator cache if and only if it flushed the log and found less than
\* 100 MB (reserved minus allocated bytes) of free device memory.
C26_GcBelow100MB ==
    hygiene.collected <=> (hygiene.flushed /\ hygiene.free < 100 * 1024 * 1024)

\* C27: every training forward pass ran with the policy in train mode and
\* gradient tracking on, every in-loop evaluation with the policy in eval
\* mode and gradient tracking off; the policy is in train mode at the end of
\* every loop body and the reference model is in eval mode throughout.
C27_Modes ==
    /\ \A i \in 1..Len(trace) :
          /\ PhaseAt(i) = "TRAIN_STEP" => (trace[i].training /\ ~trace[i].no_grad)
          /\ PhaseAt(i) = "EVAL" => (~trace[i].training /\ trace[i].no_grad)
    /\ batch_counter > 0 => policy_training
    /\ ~reference_training

C27_Witness ==
    /\ \E i \in 2..(Len(trace) - 2) :
          /\ PhaseAt(i) = "EVAL" /\ PhaseAt(i - 1) = "TRAIN_STEP"
          /\ PhaseAt(i + 1) = "CHECKPOINT"
          /\ PhaseAt(i + 2) = "TRAIN_STEP" /\ trace[i + 2].training

\* the training steps made so far
TrainSteps == {i \in 1..Len(trace) : PhaseAt(i) = "TRAIN_STEP"}

\* C28: example_counter is batch_counter times batch_size and batch_counter
\* is the number of training microbatches processed; a flush logs these two
\* values as counters/examples and counters/updates; neither counter ever
\* decreases.
C28_Counters ==
    /\ [](/\ example_counter = batch_counter * config.batch_size
          /\ batch_counter = Cardinality(TrainSteps)
          /\ flush.logged # None =>
                flush.logged[1] = [examples |-> example_counter, updates |-> batch_counter])
    /\ [][example_counter' >= example_counter /\ batch_counter' >= batch_counter]_vars

C28_Witness ==
    /\ config.gradient_accumulation_steps = 2 /\ config.batch_size = 2
    /\ batch_counter = 4 /\ optimizer_steps = 2
    /\ flush.logged # None

MetricKeys == {"metrics", "grad_norm", "examples_per_second"}

\* the observations made so far under key k: one for each microbatch, and
\* for grad_norm one for each optimizer step
Observations(k) == IF k = "grad_norm" THEN 1..optimizer_steps ELSE 1..batch_counter

\* number of times observation x of key k went into the mean of a flush
TimesFlushed(k, x) ==
    Cardinality({e \in (1..Len(flushed)) \X (1..MaxBatches + 1) :
                    e[2] <= Len(flushed[e[1]][k]) /\ flushed[e[1]][k][e[2]] = x})

TimesPending(k, x) ==
    Cardinality({i \in 1..Len(batch_metrics[k]) : batch_metrics[k][i] = x})

\* the number of the last microbatch that went into a flush, 0 if none did
LastFlushedBatch ==
    IF flushed = <<>> THEN 0
    ELSE LET last == flushed[Len(flushed)].metrics IN last[Len(last)]

Unapplied ==
    (batch_counter - (batch_counter % config.gradient_accumulation_steps) + 1)..batch_counter

\* C29: when train() has returned after a number of microbatches that is
\* not a multiple of gradient_accumulation_steps, the accumulation counter
\* is that remainder; the optimizer steps made cover the microbatches before
\* the remainder only, the metrics of the remaining ones sit unflushed in
\* the dictionary, and no loop body can follow.
C29_LeftoverAtExhaustion ==
    (tpc = "done" /\ batch_counter % config.gradient_accumulation_steps # 0) =>
        /\ gradients_accumulated = batch_counter % config.gradient_accumulation_steps
        /\ gradients_accumulated # 0
        /\ optimizer_steps * config.gradient_accumulation_steps
             = batch_counter - gradients_accumulated
        /\ \A x \in Unapplied :
              TimesFlushed("metrics", x) = 0 /\ TimesPending("metrics", x) = 1
        /\ ~ENABLED TrainStep

C29_Witness ==
    /\ tpc = "done"
    /\ config.gradient_accumulation_steps = 2
    /\ batch_counter >= 3
    /\ gradients_accumulated = 1
    /\ Len(flushed) >= 1


\* C20: the run is a sequence of loop bodies, each an optional evaluation
\* (with its optional checkpoint) followed by the training step on the same
\* batch, the batches in order; train() has returned only with the iterator
\* exhausted; nothing follows the last training step; and train() returns.
C20_StateMachine ==
    /\ [](/\ \A i \in 1..Len(trace) :
                /\ PhaseAt(i) \in {"EVAL", "CHECKPOINT", "TRAIN_STEP"}
                /\ PhaseAt(i) = "EVAL" =>
                      /\ i < Len(trace)
                      /\ PhaseAt(i + 1) \in {"CHECKPOINT", "TRAIN_STEP"}
                      /\ trace[i + 1].batch = trace[i].batch
                      /\ i > 1 => PhaseAt(i - 1) = "TRAIN_STEP"
                /\ PhaseAt(i) = "CHECKPOINT" =>
                      /\ i > 1 /\ PhaseAt(i - 1) = "EVAL"
                      /\ i < Len(trace) /\ PhaseAt(i + 1) = "TRAIN_STEP"
                      /\ trace[i + 1].batch = trace[i].batch
                /\ (PhaseAt(i) = "TRAIN_STEP" /\ i < Len(trace)) =>
                      trace[i + 1].batch = trace[i].batch + 1
          /\ trace # <<>> => /\ PhaseAt(Len(trace)) = "TRAIN_STEP"
                             /\ trace[Len(trace)].batch = batch_counter
          /\ tpc = "done" => train_iterator = 0
          /\ tpc = "loop" => (train_iterator = 0 <=> ENABLED TrainExhausted))
    /\ <>(tpc = "done")

C20_Witness ==
    /\ tpc = "done"
    /\ batch_counter = MaxBatches
    /\ \E i \in 1..Len(trace) : PhaseAt(i) = "CHECKPOINT" /\ trace[i].batch = MaxBatches
    /\ \E i \in 1..Len(trace) : PhaseAt(i) = "EVAL" /\ trace[i].batch = 1

=============================================================================
